---- MODULE Spec2Model ----
(***************************************************************************)
(* EvaluationAgent (ufo/agents/agent/evaluation_agent.py).                 *)
(*                                                                         *)
(* One call of EvaluationAgent.evaluate is modelled step by step:          *)
(* context_provision, message_constructor, get_response, json_parser, the  *)
(* inline timer override and the return.  The unused helper                *)
(* _apply_timer_override_if_needed is modelled as an operator and compared *)
(* with the inline override under a second specification.                  *)
(*                                                                         *)
(* Conventions.                                                            *)
(*  - Text is a sequence of tokens; a token is a one-character string or   *)
(*    an opaque chunk of fixed text.  Metric labels are sequences of       *)
(*    characters, so lower() and the "in" test are computed.               *)
(*  - Timer numbers are integers counting tenths of a second (100 is       *)
(*    10.0 s), so the one-decimal formatting of the note is exact.         *)
(*  - The evaluation glyphs U+2705, U+274C and U+2753 are written          *)
(*    "PASS", "FAIL" and "UNCERTAIN".                                      *)
(*  - A Python dict is a function whose DOMAIN is the set of its keys.     *)
(***************************************************************************)
EXTENDS Integers, Sequences, FiniteSets, TLC

(***************************************************************************)
(* pc        position in the evaluate call (or in the side-by-side run)    *)
(* context   the shared Context passed to evaluate, or NoContext           *)
(* prompter  the tool information handed to the prompter (line 116)        *)
(* message   the prompt built by message_constructor                      *)
(* response  what get_response returned: raw text and cost                 *)
(* result    evaluate's local result once parsed                           *)
(* returned  the pair evaluate returns                                     *)
(* error     the exception that left evaluate, "none" if none              *)
(* llm_calls number of get_response calls made                             *)
(* obj       the typed verdict given to _apply_timer_override_if_needed    *)
(*                                                                         *)
(* Not modelled: JSON null values (the code reads a null reason or metric  *)
(* as empty, like a missing one), sub-scores without an evaluation key,    *)
(* NaN and infinite timer values.                                          *)
(***************************************************************************)
VARIABLES pc, context, prompter, message, response, result, returned, error,
          llm_calls, obj

vars == <<pc, context, prompter, message, response, result, returned, error,
          llm_calls, obj>>

(***************************************************************************)
(* Bounds of the model.                                                    *)
(***************************************************************************)
MaxSubScores == 2

(***************************************************************************)
(* Text helpers.                                                           *)
(***************************************************************************)
UpperChars == <<"A","B","C","D","E","F","G","H","I","J","K","L","M",
                "N","O","P","Q","R","S","T","U","V","W","X","Y","Z">>

LowerChars == <<"a","b","c","d","e","f","g","h","i","j","k","l","m",
                "n","o","p","q","r","s","t","u","v","w","x","y","z">>

\* str.lower() on one character
LowerChar(c) ==
    IF \E i \in 1..Len(UpperChars) : UpperChars[i] = c
    THEN LowerChars[CHOOSE i \in 1..Len(UpperChars) : UpperChars[i] = c]
    ELSE c

\* str.lower()
Lower(s) == [i \in 1..Len(s) |-> LowerChar(s[i])]

\* Python's "sub in s" on strings
Contains(s, sub) ==
    \E i \in 0..(Len(s) - Len(sub)) :
        \A j \in 1..Len(sub) : s[i + j] = sub[j]

\* number of (possibly overlapping) occurrences of sub in s
Occurrences(s, sub) ==
    Cardinality({i \in 0..(Len(s) - Len(sub)) :
                    \A j \in 1..Len(sub) : s[i + j] = sub[j]})

IsPrefix(p, s) == Len(p) <= Len(s) /\ SubSeq(s, 1, Len(p)) = p

Whitespace == {" ", "\n", "\t"}

\* str.rstrip()
RECURSIVE RStrip(_)
RStrip(s) ==
    IF s # <<>> /\ s[Len(s)] \in Whitespace
    THEN RStrip(SubSeq(s, 1, Len(s) - 1))
    ELSE s

Digits == <<"0","1","2","3","4","5","6","7","8","9">>

\* decimal digits of a natural number
RECURSIVE DecStr(_)
DecStr(n) ==
    IF n < 10 THEN <<Digits[n + 1]>>
    ELSE DecStr(n \div 10) \o <<Digits[(n % 10) + 1]>>

\* f"{x:.1f}" for x given in tenths
Format1f(x) ==
    IF x < 0
    THEN <<"-">> \o DecStr((-x) \div 10) \o <<".">> \o <<Digits[((-x) % 10) + 1]>>
    ELSE DecStr(x \div 10) \o <<".">> \o <<Digits[(x % 10) + 1]>>

(***************************************************************************)
(* Values.                                                                 *)
(***************************************************************************)
PASS == "PASS"

FAIL == "FAIL"

UNCERTAIN == "UNCERTAIN"

\* Python values a context entry may hold: None, a number, a string that
\* spells a number ("10.0") and a string that does not
PyNone == [kind |-> "none", v |-> 0]

PyNum(n) == [kind |-> "num", v |-> n]

PyNumStr(n) == [kind |-> "numstr", v |-> n]

PyStr == [kind |-> "str", v |-> 0]

\* ContextNames members read by this file
TOOL_INFO == "TOOL_INFO"

TIMER_LIMIT_SECONDS == "TIMER_LIMIT_SECONDS"

TIMER_ELAPSED_SECONDS == "TIMER_ELAPSED_SECONDS"

TIMER_DURATION_SATISFIED == "TIMER_DURATION_SATISFIED"

TimerKeys == {TIMER_LIMIT_SECONDS, TIMER_ELAPSED_SECONDS, TIMER_DURATION_SATISFIED}

\* evaluate(context=None)
NoContext == [present |-> FALSE]

\* a Context object: its store, and the keys whose lookup raises
MkContext(tools, limit, elapsed, flag, raising) ==
    [present |-> TRUE,
     store |-> (TOOL_INFO :> tools) @@ (TIMER_LIMIT_SECONDS :> limit) @@
               (TIMER_ELAPSED_SECONDS :> elapsed) @@
               (TIMER_DURATION_SATISFIED :> flag),
     raising |-> raising]

\* tool-info mappings: agent name -> list of tool names
SomeTools == [kind |-> "dict", v |-> <<<<"HostAgent", <<"click", "type">> >>, <<"AppAgent", <<>> >> >>]

NoTools == [kind |-> "dict", v |-> <<>>]

\* the TOOL_INFO entry holding None
NoneTools == [kind |-> "none", v |-> <<>>]

LimitValues == {PyNone, PyStr, PyNum(-100), PyNum(0), PyNum(100), PyNumStr(100)}

ElapsedValues ==
    {PyNone, PyStr, PyNum(50), PyNum(95), PyNum(100), PyNum(123), PyNumStr(100)}

FlagValues == {"None", "False", "True"}

Contexts ==
    {NoContext}
    \cup {MkContext(SomeTools, l, e, f, {}) :
              l \in LimitValues, e \in ElapsedValues, f \in FlagValues}
    \cup {MkContext(NoTools, PyNum(100), PyNum(123), "True", {k}) : k \in TimerKeys}
    \cup {MkContext(NoTools, PyNum(100), PyNum(100), "None", {}),
          MkContext(NoneTools, PyNum(100), PyNum(100), "None", {}),
          MkContext(SomeTools, PyNum(100), PyNum(100), "None", {TOOL_INFO})}

\* metric labels, as characters
MetricTime == <<"R","u","n"," ","T","I","M","E">>

MetricMinutes == <<"5"," ","M","i","n","u","t","e","s">>

MetricSeconds == <<"s","e","c","o","n","d","s">>

MetricDuration == <<"D","u","r","a","t","i","o","n">>

MetricSteps == <<"S","t","e","p","s">>

SubScores ==
    {[metric |-> MetricTime, evaluation |-> FAIL],
     [metric |-> MetricMinutes, evaluation |-> UNCERTAIN],
     [metric |-> MetricSeconds, evaluation |-> PASS],
     [metric |-> MetricDuration, evaluation |-> FAIL],
     [metric |-> MetricSteps, evaluation |-> FAIL],
     [metric |-> <<>>, evaluation |-> UNCERTAIN]}

SubScoreLists == UNION {[1..n -> SubScores] : n \in 0..MaxSubScores}

\* reason texts
ReasonFailed == <<"The task took too long.">>

ReasonTrailing == <<"The task took too long.", " ">>

\* Python dicts: a function from the keys present to their values
EmptyDict == [k \in {} |-> TRUE]

Put(d, k, val) == [kk \in DOMAIN d \cup {k} |-> IF kk = k THEN val ELSE d[kk]]

Has(d, k) == k \in DOMAIN d

\* Python None in a variable that otherwise holds a dict
None == [none |-> TRUE]

(***************************************************************************)
(* Context.get: a lookup that returns the stored value or raises.          *)
(***************************************************************************)
ContextGetRaises(ctx, name) == name \in ctx.raising

ContextGet(ctx, name) == ctx.store[name]

(***************************************************************************)
(* The inline timer override of evaluate.                                  *)
(***************************************************************************)
\* float(x): a number or a string spelling one converts to the number,
\* any other string raises ValueError
FloatRaises(x) == x.kind \notin {"num", "numstr"}

Float(x) == PyNum(x.v)

\* bool(satisfied_flag)
Bool(flag) == flag = "True"

\* lines 218-223: the three reads, all None if any raises
ReadTimer(ctx) ==
    IF \E k \in TimerKeys : ContextGetRaises(ctx, k)
    THEN [limit |-> PyNone, elapsed |-> PyNone, satisfied_flag |-> "None"]
    ELSE [limit |-> ContextGet(ctx, TIMER_LIMIT_SECONDS),
          elapsed |-> ContextGet(ctx, TIMER_ELAPSED_SECONDS),
          satisfied_flag |-> ContextGet(ctx, TIMER_DURATION_SATISFIED)]

\* lines 226-231: convert both to float, or drop both
ConvertTimer(t) ==
    IF t.limit # PyNone /\ t.elapsed # PyNone
    THEN IF FloatRaises(t.limit) \/ FloatRaises(t.elapsed)
         THEN [t EXCEPT !.limit = PyNone, !.elapsed = PyNone]
         ELSE [t EXCEPT !.limit = Float(t.limit), !.elapsed = Float(t.elapsed)]
    ELSE t

\* truth value of a Python value: None and 0.0 are false, a non-empty string is true
Truthy(x) ==
    CASE x.kind = "none" -> FALSE
      [] x.kind = "num" -> x.v # 0
      [] OTHER -> TRUE

\* mutant of TimerUsable: the limit > 0 test is left out
TimerUsable_AnyLimit(t) ==
    /\ Truthy(t.limit)
    /\ t.elapsed # PyNone

\* line 233: if limit and elapsed is not None and limit > 0
\* (limit is a float or None here whenever elapsed is not None)
TimerUsable(t) ==
    /\ Truthy(t.limit)
    /\ t.elapsed # PyNone
    /\ t.limit.kind = "num" /\ t.limit.v > 0

\* mutant of DurationOk: the helper's 90% threshold instead of elapsed >= limit
DurationOk_Ninety(t) == Bool(t.satisfied_flag) \/ (10 * t.elapsed.v >= 9 * t.limit.v)

\* line 234
DurationOk(t) == Bool(t.satisfied_flag) \/ (t.elapsed.v >= t.limit.v)

\* lines 240-247
IsDurationMetric(metric) ==
    LET m == Lower(metric) IN
    \/ Contains(m, <<"s","e","c","o","n","d">>)
    \/ Contains(m, <<"d","u","r","a","t","i","o","n">>)
    \/ Contains(m, <<"m","i","n","u","t","e">>)
    \/ Contains(m, <<"t","i","m","e">>)

\* mutant of FlipSubScore: only a failing evaluation is flipped
FlipSubScore_OnlyFail(s) ==
    IF IsDurationMetric(s.metric) /\ s.evaluation = FAIL
    THEN [s EXCEPT !.evaluation = PASS]
    ELSE s

\* lines 240-249: one iteration of the loop
FlipSubScore(s) ==
    IF IsDurationMetric(s.metric) THEN [s EXCEPT !.evaluation = PASS] ELSE s

\* mutant of FlipSubScores: the list is rebuilt from the duration-related entries only
FlipSubScores_Filter(res) ==
    LET sub_scores == IF Has(res, "sub_scores") THEN res["sub_scores"] ELSE <<>>
    IN Put(res, "sub_scores",
           SelectSeq([i \in 1..Len(sub_scores) |-> FlipSubScore(sub_scores[i])],
                     LAMBDA s : IsDurationMetric(s.metric)))

\* lines 238-251
FlipSubScores(res) ==
    LET sub_scores == IF Has(res, "sub_scores") THEN res["sub_scores"] ELSE <<>>
    IN Put(res, "sub_scores", [i \in 1..Len(sub_scores) |-> FlipSubScore(sub_scores[i])])

\* mutant of SetComplete: the overall verdict is left as parsed
SetComplete_Skip(res) == res

\* lines 255-256
SetComplete(res) ==
    IF Has(res, "task_is_complete") THEN Put(res, "task_is_complete", TRUE) ELSE res

\* lines 260-264 (and 175-179)
Note(elapsed, limit) ==
    <<"Timer override applied: internal timer reports elapsed ">>
    \o Format1f(elapsed) \o <<"s for a requested limit of ">>
    \o Format1f(limit)
    \o <<"s, so the duration requirement is considered satisfied.">>

\* mutant of AppendNote: a note already present is not appended again
AppendNote_Dedup(res, note) ==
    LET base_reason == IF Has(res, "reason") THEN res["reason"] ELSE <<>>
    IN IF base_reason = <<>>
       THEN Put(res, "reason", note)
       ELSE IF Contains(base_reason, note)
            THEN res
            ELSE Put(res, "reason", base_reason \o <<"\n", "\n">> \o note)

\* mutant of AppendNote: trailing whitespace of the old reason is stripped
AppendNote_RStrip(res, note) ==
    LET base_reason == IF Has(res, "reason") THEN res["reason"] ELSE <<>>
    IN IF base_reason # <<>>
       THEN Put(res, "reason", RStrip(base_reason) \o <<"\n", "\n">> \o note)
       ELSE Put(res, "reason", note)

\* lines 259-268
AppendNote(res, note) ==
    LET base_reason == IF Has(res, "reason") THEN res["reason"] ELSE <<>>
    IN IF base_reason # <<>>
       THEN Put(res, "reason", base_reason \o <<"\n", "\n">> \o note)
       ELSE Put(res, "reason", note)

\* lines 217-236: whether the override is applied
OverrideApplies(ctx) ==
    /\ ctx.present
    /\ LET t == ConvertTimer(ReadTimer(ctx)) IN TimerUsable(t) /\ DurationOk(t)

\* lines 217-269
TimerOverride(res, ctx) ==
    IF OverrideApplies(ctx)
    THEN LET t == ConvertTimer(ReadTimer(ctx))
         IN AppendNote(SetComplete(FlipSubScores(res)), Note(t.elapsed.v, t.limit.v))
    ELSE res

(***************************************************************************)
(* The helper _apply_timer_override_if_needed, on a typed response object: *)
(* a function from attribute names to values.                              *)
(***************************************************************************)
\* lines 130-147: the reads and conversions that make the helper return early
HelperTimerUsable(ctx) ==
    /\ ctx.present
    /\ ~ContextGetRaises(ctx, TIMER_ELAPSED_SECONDS)
    /\ ~ContextGetRaises(ctx, TIMER_LIMIT_SECONDS)
    /\ ContextGet(ctx, TIMER_ELAPSED_SECONDS) # PyNone
    /\ ContextGet(ctx, TIMER_LIMIT_SECONDS) # PyNone
    /\ ~FloatRaises(ContextGet(ctx, TIMER_ELAPSED_SECONDS))
    /\ ~FloatRaises(ContextGet(ctx, TIMER_LIMIT_SECONDS))
    /\ Float(ContextGet(ctx, TIMER_LIMIT_SECONDS)).v > 0

\* mutant of HelperThresholdMet: the whole limit is required
HelperThresholdMet_Full(elapsed, limit) == ~(elapsed < limit)

\* line 151: elapsed < 0.9 * limit returns early (in tenths: 10e < 9l; the
\* float product 0.9 * limit agrees with this for the limits used here)
HelperThresholdMet(elapsed, limit) == ~(10 * elapsed < 9 * limit)

\* lines 130-152
HelperApplies(ctx) ==
    /\ HelperTimerUsable(ctx)
    /\ HelperThresholdMet(Float(ContextGet(ctx, TIMER_ELAPSED_SECONDS)).v,
                          Float(ContextGet(ctx, TIMER_LIMIT_SECONDS)).v)

\* line 159
HelperIsDurationMetric(metric) ==
    LET metric_text == Lower(metric) IN
    \E k \in {<<"s","e","c","o","n","d">>, <<"s","e","c","o","n","d","s">>,
              <<"m","i","n","u","t","e">>, <<"d","u","r","a","t","i","o","n">>,
              <<"t","i","m","e">>} : Contains(metric_text, k)

\* lines 157-161
HelperFlipSubScore(sub) ==
    IF HelperIsDurationMetric(sub.metric) /\ sub.evaluation = FAIL
    THEN [sub EXCEPT !.evaluation = PASS]
    ELSE sub

\* lines 155-161
HelperFlipSubScores(o) ==
    [o EXCEPT !["sub_scores"] = [i \in 1..Len(@) |-> HelperFlipSubScore(@[i])]]

\* lines 165-172
HelperSetPassed(o) ==
    IF Has(o, "is_passed")
    THEN Put(o, "is_passed",
             \A i \in 1..Len(o["sub_scores"]) : o["sub_scores"][i].evaluation # FAIL)
    ELSE o

\* lines 181-184
HelperAppendNote(o, note) ==
    IF o["reason"] = <<>>
    THEN Put(o, "reason", note)
    ELSE IF ~Contains(o["reason"], note)
         THEN Put(o, "reason", RStrip(o["reason"]) \o <<"\n", "\n">> \o note)
         ELSE o

\* lines 122-186
apply_timer_override_if_needed(o, ctx) ==
    IF HelperApplies(ctx)
    THEN HelperAppendNote(
             HelperSetPassed(HelperFlipSubScores(o)),
             Note(Float(ContextGet(ctx, TIMER_ELAPSED_SECONDS)).v,
                  Float(ContextGet(ctx, TIMER_LIMIT_SECONDS)).v))
    ELSE o

(***************************************************************************)
(* Inputs of one evaluate call.                                            *)
(***************************************************************************)
\* a reason that already carries the note for elapsed 10.0 s, limit 10.0 s
ReasonAnnotated == ReasonFailed \o <<"\n", "\n">> \o Note(100, 100)

ReasonTexts == {<<>>, ReasonFailed, ReasonTrailing, ReasonAnnotated}

WithKey(ds, k, vals) == ds \cup {Put(d, k, val) : d \in ds, val \in vals}

\* the JSON objects the LLM may answer with
Docs ==
    WithKey(WithKey(WithKey({EmptyDict}, "task_is_complete", BOOLEAN),
                    "sub_scores", SubScoreLists),
            "reason", ReasonTexts)

Costs == {3}

\* get_response's return value: the raw text (valid JSON for doc, or not JSON) and the cost
Responses ==
    [valid : {TRUE}, doc : Docs, cost : Costs]
    \cup [valid : {FALSE}, doc : {EmptyDict}, cost : Costs]

\* ufo.utils.json_parser: raises on text that is not valid JSON
JsonParserRaises(text) == ~text.valid

JsonParser(text) == text.doc

(***************************************************************************)
(* evaluate, step by step.                                                 *)
(***************************************************************************)
Init ==
    /\ pc = "start"
    /\ context \in Contexts
    /\ prompter = NoneTools
    /\ message = None
    /\ response = None
    /\ result = None
    /\ returned = None
    /\ error = "none"
    /\ llm_calls = 0
    /\ obj = None

\* line 202 and lines 93-116
ContextProvision ==
    /\ pc = "start"
    /\ IF ~context.present
       THEN pc' = "provisioned" /\ UNCHANGED <<prompter, error>>
       ELSE IF ContextGetRaises(context, TOOL_INFO)
            THEN pc' = "error" /\ error' = "ContextError" /\ UNCHANGED prompter
            ELSE IF ContextGet(context, TOOL_INFO).kind = "none"
                 THEN \* for agent_name in None
                      pc' = "error" /\ error' = "TypeError" /\ UNCHANGED prompter
                 ELSE /\ prompter' = ContextGet(context, TOOL_INFO)
                      /\ pc' = "provisioned"
                      /\ UNCHANGED error
    /\ UNCHANGED <<context, message, response, result, returned, llm_calls, obj>>

\* lines 204-206 and lines 62-83
MessageConstructor ==
    /\ pc = "provisioned"
    /\ message' = [system |-> prompter, user |-> "request"]
    /\ pc' = "constructed"
    /\ UNCHANGED <<context, prompter, response, result, returned, error, llm_calls, obj>>

\* lines 207-209
GetResponse ==
    /\ pc = "constructed"
    /\ \E r \in Responses : response' = r
    /\ llm_calls' = llm_calls + 1
    /\ pc' = "responded"
    /\ UNCHANGED <<context, prompter, message, result, returned, error, obj>>

\* mutant of ParseResponse: a default verdict is synthesized for text that is not JSON
ParseResponse_Fallback ==
    /\ pc = "responded"
    /\ IF JsonParserRaises(response)
       THEN pc' = "parsed" /\ result' = Put(EmptyDict, "task_is_complete", FALSE)
            /\ UNCHANGED error
       ELSE pc' = "parsed" /\ result' = JsonParser(response) /\ UNCHANGED error
    /\ UNCHANGED <<context, prompter, message, response, returned, llm_calls, obj>>

\* line 212
ParseResponse ==
    /\ pc = "responded"
    /\ IF JsonParserRaises(response)
       THEN pc' = "error" /\ error' = "JSONDecodeError" /\ UNCHANGED result
       ELSE pc' = "parsed" /\ result' = JsonParser(response) /\ UNCHANGED error
    /\ UNCHANGED <<context, prompter, message, response, returned, llm_calls, obj>>

\* mutant of OverrideAndReturn: the satisfied flag is recorded in the context
OverrideAndReturn_WritesContext ==
    /\ pc = "parsed"
    /\ result' = TimerOverride(result, context)
    /\ returned' = [result |-> result', cost |-> response.cost]
    /\ pc' = "done"
    /\ context' = IF OverrideApplies(context)
                  THEN [context EXCEPT !.store[TIMER_DURATION_SATISFIED] = "True"]
                  ELSE context
    /\ UNCHANGED <<prompter, message, response, error, llm_calls, obj>>

\* lines 217-271
OverrideAndReturn ==
    /\ pc = "parsed"
    /\ result' = TimerOverride(result, context)
    /\ returned' = [result |-> result', cost |-> response.cost]
    /\ pc' = "done"
    /\ UNCHANGED <<context, prompter, message, response, error, llm_calls, obj>>

Next ==
    \/ ContextProvision
    \/ MessageConstructor
    \/ GetResponse
    \/ ParseResponse
    \/ OverrideAndReturn

Spec == Init /\ [][Next]_vars

(***************************************************************************)
(* The two override implementations side by side: both are applied to the  *)
(* same verdict and the same context.                                      *)
(***************************************************************************)
\* EvaluationAgentResponse(**response_dict): the verdict as a typed object,
\* with or without an is_passed attribute
ToObject(doc, with_passed) ==
    IF with_passed THEN Put(doc, "is_passed", FALSE) ELSE doc

FullDocs ==
    {d \in Docs : DOMAIN d = {"task_is_complete", "sub_scores", "reason"}}

InitCompare ==
    /\ pc = "cmp"
    /\ context \in Contexts
    /\ prompter = NoneTools
    /\ message = None
    /\ \E d \in FullDocs, c \in Costs, p \in BOOLEAN :
          /\ response = [valid |-> TRUE, doc |-> d, cost |-> c]
          /\ obj = ToObject(d, p)
    /\ result = None
    /\ returned = None
    /\ error = "none"
    /\ llm_calls = 0

\* the inline override of evaluate applied to the verdict
ApplyInline ==
    /\ pc \in {"cmp", "cmp_h"}
    /\ result' = TimerOverride(response.doc, context)
    /\ pc' = IF pc = "cmp" THEN "cmp_i" ELSE "cmp_ih"
    /\ UNCHANGED <<context, prompter, message, response, returned, error, llm_calls, obj>>

\* the helper applied to the typed verdict
ApplyHelper ==
    /\ pc \in {"cmp", "cmp_i"}
    /\ obj' = apply_timer_override_if_needed(obj, context)
    /\ pc' = IF pc = "cmp" THEN "cmp_h" ELSE "cmp_ih"
    /\ UNCHANGED <<context, prompter, message, response, result, returned, error, llm_calls>>

NextCompare == ApplyInline \/ ApplyHelper

SpecCompare == InitCompare /\ [][NextCompare]_vars

(***************************************************************************)
(* Properties.                                                             *)
(***************************************************************************)
Done == pc = "done"

\* the result as parsed from the LLM output, and the result evaluate returns
Parsed == response.doc

Out == returned.result

SubScoresOf(d) == IF Has(d, "sub_scores") THEN d["sub_scores"] ELSE <<>>

ReasonOf(d) == IF Has(d, "reason") THEN d["reason"] ELSE <<>>

CtxLimit == context.store[TIMER_LIMIT_SECONDS]

CtxElapsed == context.store[TIMER_ELAPSED_SECONDS]

CtxFlag == context.store[TIMER_DURATION_SATISFIED]

\* a value that is a number or spells one
Numeric(x) == x.kind \in {"num", "numstr"}

\* the context supplies both timer values, as numbers, without raising
CtxNumeric ==
    /\ context.present
    /\ context.raising \cap TimerKeys = {}
    /\ Numeric(CtxLimit)
    /\ Numeric(CtxElapsed)

\* durationOk of the specification
CtxDurationOk ==
    /\ CtxNumeric
    /\ CtxLimit.v > 0
    /\ (CtxFlag = "True" \/ CtxElapsed.v >= CtxLimit.v)

\* the metric mentions second, minute, duration or time, in any case
TimeRelated(metric) ==
    \E k \in {<<"s","e","c","o","n","d">>, <<"m","i","n","u","t","e">>,
              <<"d","u","r","a","t","i","o","n">>, <<"t","i","m","e">>} :
        Contains(Lower(metric), k)

SameMetrics(a, b) ==
    /\ Len(a) = Len(b)
    /\ \A i \in 1..Len(a) : a[i].metric = b[i].metric

C1Pre == CtxNumeric /\ CtxLimit.v > 0 /\ CtxElapsed.v >= CtxLimit.v

\* C1 (as claimed): with elapsed >= limit > 0, a sub-score becomes PASS iff its
\* metric is time-related AND it was FAIL; every other sub-score keeps its evaluation.
C1_OnlyFailingFlipped ==
    (Done /\ C1Pre) =>
        /\ Len(SubScoresOf(Out)) = Len(SubScoresOf(Parsed))
        /\ \A i \in 1..Len(SubScoresOf(Parsed)) :
              SubScoresOf(Out)[i].evaluation =
                  IF /\ TimeRelated(SubScoresOf(Parsed)[i].metric)
                     /\ SubScoresOf(Parsed)[i].evaluation = FAIL
                  THEN PASS
                  ELSE SubScoresOf(Parsed)[i].evaluation

\* C1 (amended): with elapsed >= limit > 0, every sub-score whose metric is
\* time-related ends PASS whatever its evaluation was (FAIL, UNCERTAIN or PASS);
\* a sub-score whose metric has none of the keywords keeps its evaluation.
C1_AllTimeRelatedPass ==
    (Done /\ C1Pre) =>
        /\ Len(SubScoresOf(Out)) = Len(SubScoresOf(Parsed))
        /\ \A i \in 1..Len(SubScoresOf(Parsed)) :
              SubScoresOf(Out)[i].evaluation =
                  IF TimeRelated(SubScoresOf(Parsed)[i].metric)
                  THEN PASS
                  ELSE SubScoresOf(Parsed)[i].evaluation

C1_Witness ==
    /\ Done /\ C1Pre
    /\ \E i, j \in 1..Len(SubScoresOf(Parsed)) :
          /\ TimeRelated(SubScoresOf(Parsed)[i].metric)
          /\ SubScoresOf(Parsed)[i].evaluation = UNCERTAIN
          /\ SubScoresOf(Out)[i].evaluation = PASS
          /\ ~TimeRelated(SubScoresOf(Parsed)[j].metric)
          /\ SubScoresOf(Parsed)[j].evaluation = FAIL
          /\ SubScoresOf(Out)[j].evaluation = FAIL

\* C2 (as claimed): whenever durationOk holds, the returned result has
\* task_is_complete equal to true.
C2_CompleteForced ==
    (Done /\ CtxDurationOk) =>
        (Has(Out, "task_is_complete") /\ Out["task_is_complete"] = TRUE)

\* C2 (amended): whenever durationOk holds and the parsed result has a
\* task_is_complete field, the returned field is true whatever it was; a parsed
\* result without the field is returned without it.
C2_CompleteForcedIfPresent ==
    (Done /\ CtxDurationOk) =>
        IF Has(Parsed, "task_is_complete")
        THEN Has(Out, "task_is_complete") /\ Out["task_is_complete"] = TRUE
        ELSE ~Has(Out, "task_is_complete")

C2_Witness ==
    /\ Done /\ CtxDurationOk
    /\ CtxFlag = "True" /\ CtxElapsed.v < CtxLimit.v
    /\ Has(Parsed, "task_is_complete") /\ Parsed["task_is_complete"] = FALSE
    /\ Out["task_is_complete"] = TRUE

\* C3 (as claimed): the override is idempotent: applying it again to the
\* returned result changes nothing.
C3_Idempotent ==
    Done => TimerOverride(Out, context) = Out

\* C3 (amended): a second application leaves sub_scores and task_is_complete as
\* the first left them and appends the note once more: the reason after two
\* applications is the reason after one, a blank line and the note.  When the
\* override does not apply, a second application changes nothing.
C3_SecondApplicationAppends ==
    Done =>
        LET twice == TimerOverride(Out, context) IN
        IF CtxDurationOk
        THEN /\ DOMAIN twice = DOMAIN Out
             /\ twice["sub_scores"] = Out["sub_scores"]
             /\ Has(Out, "task_is_complete") =>
                    twice["task_is_complete"] = Out["task_is_complete"]
             /\ twice["reason"] =
                    Out["reason"] \o <<"\n", "\n">> \o Note(CtxElapsed.v, CtxLimit.v)
             /\ Occurrences(twice["reason"], Note(CtxElapsed.v, CtxLimit.v)) =
                    Occurrences(Out["reason"], Note(CtxElapsed.v, CtxLimit.v)) + 1
        ELSE twice = Out

C3_Witness ==
    /\ Done /\ CtxDurationOk
    /\ Out # Parsed
    /\ Occurrences(Out["reason"], Note(CtxElapsed.v, CtxLimit.v)) = 1
    /\ Occurrences(TimerOverride(Out, context)["reason"],
                   Note(CtxElapsed.v, CtxLimit.v)) = 2

C4Pre ==
    \/ ~context.present
    \/ context.raising \cap TimerKeys # {}
    \/ ~Numeric(CtxLimit)
    \/ ~Numeric(CtxElapsed)
    \/ CtxLimit.v <= 0

\* C4: with no context, a missing or non-numeric timer value, a raising timer
\* lookup, or limit <= 0, evaluate returns the parsed result unchanged and raises
\* nothing, even when the satisfied flag is true.
C4_NoTimerNoMutation ==
    (pc \in {"parsed", "done"} /\ C4Pre) =>
        /\ error = "none"
        /\ result = Parsed
        /\ Done => Out = Parsed

C4_Witness ==
    /\ Done /\ C4Pre
    /\ context.present /\ CtxFlag = "True"
    /\ CtxLimit = PyNum(-100) /\ Numeric(CtxElapsed)
    /\ Has(Parsed, "task_is_complete") /\ Parsed["task_is_complete"] = FALSE
    /\ \E i \in 1..Len(SubScoresOf(Parsed)) :
          /\ TimeRelated(SubScoresOf(Parsed)[i].metric)
          /\ SubScoresOf(Parsed)[i].evaluation = FAIL
    /\ Out = Parsed

C5Pre ==
    /\ CtxNumeric
    /\ CtxLimit.v > 0
    /\ CtxElapsed.v < CtxLimit.v
    /\ CtxFlag \in {"None", "False"}

\* C5: with numeric timers and limit > 0, elapsed < limit and the satisfied flag
\* absent or false, the parsed result is returned unchanged.
C5_BelowLimitNoMutation ==
    (Done /\ C5Pre) => Out = Parsed

C5_Witness ==
    /\ Done /\ C5Pre
    /\ CtxElapsed = PyNum(95) /\ CtxFlag = "False"
    /\ Has(Parsed, "task_is_complete") /\ Parsed["task_is_complete"] = FALSE
    /\ \E i \in 1..Len(SubScoresOf(Parsed)) :
          /\ TimeRelated(SubScoresOf(Parsed)[i].metric)
          /\ SubScoresOf(Parsed)[i].evaluation = FAIL
    /\ Out = Parsed

\* C6: when the override applies the reason is only appended to: an empty or
\* missing reason becomes the note, any other reason becomes the old text, a
\* blank line and the note, so the parsed reason is a prefix of the returned one.
C6_ReasonAppended ==
    (Done /\ CtxDurationOk) =>
        /\ Has(Out, "reason")
        /\ Out["reason"] =
              IF ReasonOf(Parsed) = <<>>
              THEN Note(CtxElapsed.v, CtxLimit.v)
              ELSE ReasonOf(Parsed) \o <<"\n", "\n">> \o Note(CtxElapsed.v, CtxLimit.v)
        /\ IsPrefix(ReasonOf(Parsed), Out["reason"])

C6_Witness ==
    /\ Done /\ CtxDurationOk
    /\ ReasonOf(Parsed) = ReasonTrailing
    /\ Out["reason"] = ReasonTrailing \o <<"\n", "\n">> \o Note(CtxElapsed.v, CtxLimit.v)

\* C7: the returned sub_scores has the length of the parsed one and the same
\* metric at every index, whatever the timer signal.
C7_SubScoresPreserved ==
    Done => SameMetrics(SubScoresOf(Out), SubScoresOf(Parsed))

C7_Witness ==
    /\ Done /\ CtxDurationOk
    /\ Len(SubScoresOf(Parsed)) >= 2
    /\ SubScoresOf(Out) # SubScoresOf(Parsed)
    /\ \E i \in 1..Len(SubScoresOf(Parsed)) : ~TimeRelated(SubScoresOf(Parsed)[i].metric)

\* C8: when the LLM's text is not valid JSON, evaluate ends in an error: nothing
\* is returned, the override is never reached, and the LLM is called once only.
C8_InvalidJsonFatal ==
    (Has(response, "valid") /\ ~response.valid) =>
        /\ pc \in {"responded", "error"}
        /\ returned = None
        /\ result = None
        /\ llm_calls = 1

C8_Witness ==
    /\ pc = "error" /\ error = "JSONDecodeError"
    /\ returned = None
    /\ llm_calls = 1

\* C9: no step of evaluate writes to the shared context.
C9_ContextReadOnly == [][context' = context]_vars

C9_Witness ==
    /\ Done /\ CtxDurationOk
    /\ context.store[TOOL_INFO] = SomeTools /\ prompter = SomeTools
    /\ Out # Parsed

\* the verdict object the helper was given
HelperInput == ToObject(Parsed, Has(obj, "is_passed"))

NoFlag == context.present /\ CtxFlag \in {"None", "False"}

\* a verdict the override was not applied to before: its reason lacks the note
Fresh == ~Contains(ReasonOf(Parsed), Note(CtxElapsed.v, CtxLimit.v))

\* C10 (as claimed): for numeric limit and elapsed and no satisfied flag, the
\* helper modifies its result iff the inline override modifies its result
\* (on a verdict that does not carry the note yet).
C10_SameTrigger ==
    (pc = "cmp_ih" /\ CtxNumeric /\ NoFlag /\ Fresh) =>
        ((obj # HelperInput) <=> (result # Parsed))

\* the helper's override has been carried out on o
HelperEffect(o) ==
    /\ Contains(o["reason"], Note(CtxElapsed.v, CtxLimit.v))
    /\ \A i \in 1..Len(o["sub_scores"]) :
          ~(TimeRelated(o["sub_scores"][i].metric) /\ o["sub_scores"][i].evaluation = FAIL)

\* C10 (amended): for numeric limit and elapsed and no satisfied flag, the inline
\* override modifies its result iff elapsed >= limit > 0, while the helper applies
\* already from 90% of the limit (10*elapsed >= 9*limit, limit > 0) and otherwise
\* returns its input; so whenever the inline override modifies, the helper applies,
\* but not conversely.
C10_HelperAppliesEarlier ==
    (pc = "cmp_ih" /\ CtxNumeric /\ NoFlag) =>
        /\ (result # Parsed) <=> (CtxLimit.v > 0 /\ CtxElapsed.v >= CtxLimit.v)
        /\ IF CtxLimit.v > 0 /\ 10 * CtxElapsed.v >= 9 * CtxLimit.v
           THEN HelperEffect(obj)
           ELSE obj = HelperInput
        /\ (result # Parsed) => HelperEffect(obj)

C10_Witness ==
    /\ pc = "cmp_ih" /\ CtxNumeric /\ NoFlag
    /\ CtxLimit = PyNum(100) /\ CtxElapsed = PyNum(95)
    /\ obj # HelperInput
    /\ HelperEffect(obj)
    /\ result = Parsed

====
